---- MODULE Spec2Model ----
(***************************************************************************)
(* Model of the pattern-scanning and hook-installation engine of           *)
(* to-your-face-reloaded (src/src/PatternScanning.cpp, Hook.cpp, Main.cpp). *)
(*                                                                         *)
(* Addresses are machine words of AddrBits bits (uintptr_t, scaled down    *)
(* from 64); all address arithmetic wraps modulo 2^AddrBits.  Memory is    *)
(* the sequence of the byte strings written into it, latest last; a byte  *)
(* never written is FillByte.                                              *)
(***************************************************************************)
EXTENDS Integers, Sequences, FiniteSets, TLC

VARIABLES
    mem,         \* process memory: the byte strings [at, bytes] written, in order
    argStart,    \* scanner harness: argument start
    argEnd,      \* scanner harness: argument end
    argPattern,  \* scanner harness: argument pattern (pattern_len = Len)
    out,         \* scanner harness: the scanners that ran -> [result, reads, returned]
    pc,          \* control position
    base,        \* REL::Module::get().base()
    caller,      \* the entry point that is running: "Query" or "Load"
    queried,     \* SKSEPlugin_Query was called
    loads,       \* number of calls of SKSEPlugin_Load so far
    ret,         \* return value of the last entry point: "none", "true", "false"
    cpu,         \* GetCommentAddress: CPUFeatures cpu
    result,      \* GetCommentAddress: uintptr_t result
    method_used, \* GetCommentAddress: const char* method_used
    attempts,    \* GetCommentAddress: the tiers attempted in this call, in order
    commentAddress, \* std::optional<uintptr_t> commentAddress of the caller
    hookBuffer,  \* InstallCommentHook: void* hookBuffer
    ichRet,      \* return value of the last InstallCommentHook
    allocated,   \* buffers VirtualAlloc has returned
    freed,       \* buffers released with VirtualFree
    writable,    \* target addresses whose protection is PAGE_EXECUTE_READWRITE
    oldProtect,  \* WriteLongJmp64: DWORD oldProtect
    flushed,     \* ranges <<address, length>> given to FlushInstructionCache
    codeSize,    \* InstallCommentHook: code.getSize(), the size of the generated code
    wlj,         \* WriteLongJmp64: its parameters [source, destination, length]
    mem0,        \* process memory when SKSEPlugin_Load, InstallCommentHook,
                 \* WriteLongJmp64 or IsBinaryCompatible was last entered
    calls,       \* WriteLongJmp64: the steps it has taken in this call, in order
    hist,        \* locate / verify / write / install events, in order
    hardware,    \* DetectCPUFeatures on its own: what CPUID and XGETBV report
    regs,        \* generated hook code: the registers
    rsp,         \* generated hook code: the stack pointer
    stack,       \* generated hook code: the 8-byte stack slots, by address
    zf,          \* generated hook code: the zero flag
    ip,          \* generated hook code: index of the next instruction, 0 outside
    entry,       \* generated hook code: registers and rsp on reaching the target
    callbacks,   \* generated hook code: the calls of AllowComment, [rcx, rsp]
    resumeAt,    \* generated hook code: the host address the hook returned to
    g_config,    \* AllowComment on its own: the loaded configuration
    scene        \* AllowComment on its own: npc, player and what the checks see

scanVars == <<argStart, argEnd, argPattern, out>>

progVars == <<base, caller, queried, loads, ret, cpu, result, method_used, attempts,
              commentAddress, hookBuffer, ichRet, allocated, freed, writable,
              oldProtect, flushed, codeSize, mem0, wlj, calls, hist>>

\* the state of the units that are exercised on their own
filterVars == <<g_config, scene>>

unitVars == <<hardware, regs, rsp, stack, zf, ip, entry, callbacks, resumeAt, filterVars>>

vars == <<mem, pc, scanVars, progVars, unitVars>>

(***************************************************************************)
(* Bounds of the model                                                     *)
(***************************************************************************)
AddrBits == 8        \* width of uintptr_t in the model
MaxStartOff == 1     \* scan starts at a 16-byte boundary plus 0..MaxStartOff
MaxRange == 34       \* end - start ranges over 0..MaxRange
MaxPatLen == 3       \* patterns are the prefixes of kCommentBytes up to this
MaxPlant == 52       \* fragments are planted at addresses 0..MaxPlant
PageBits == 5        \* kScanStartOffset is 2^PageBits (2^12 in the program)
ScanBits == 6        \* kScanSize is 2^ScanBits (2^24 in the program)
MaxBase == 1         \* the module base is 1..MaxBase times kScanStartOffset
MaxSigOff == 33      \* images hold the signature at start + 0..MaxSigOff
MaxLoads == 1        \* the host calls SKSEPlugin_Load at most this often

MaxJumpOff == 1      \* WriteLongJmp64 harness: source is at most this far into the window
MaxBuffers == 2      \* WriteLongJmp64 harness: number of buffers used as destination
MaxVerifyOff == 1    \* IsBinaryCompatible harness: the address is at most this far off
MaxLength == 20      \* WriteLongJmp64 harness: largest length
FillByte == 204      \* every byte of memory that was never written (int3)

AddrSpace == 2 ^ AddrBits
Addr == 0 .. (AddrSpace - 1)

\* uintptr_t arithmetic: the value of x as a machine word
Wrap(x) == (x + AddrSpace) % AddrSpace

\* the byte at address a of the memory m: the latest write that covers a
ByteIn(m, a) ==
    LET covering == { k \in 1 .. Len(m) : Wrap(a - m[k].at) < Len(m[k].bytes) } IN
    IF covering = {}
    THEN FillByte
    ELSE LET k == CHOOSE x \in covering : \A y \in covering : x >= y IN
         m[k].bytes[Wrap(a - m[k].at) + 1]

\* *(const uint8_t*)a
ByteAt(a) == ByteIn(mem, a)

(***************************************************************************)
(* PatternScanning.h: the signature                                        *)
(***************************************************************************)
kCommentBytes ==
    << 243, 15, 89, 246,      \* F3 0F 59 F6     mulss xmm6,xmm6
       15, 182, 235,          \* 0F B6 EB        movzx ebp,bl
       184, 1, 0, 0, 0,       \* B8 01 00 00 00  mov eax,1
       15, 47, 240,           \* 0F 2F F0        comiss xmm6,xmm0
       15, 67, 232 >>         \* 0F 43 E8        cmovae ebp,eax

kCommentByteCount == Len(kCommentBytes)

(***************************************************************************)
(* PatternScanning.cpp: the three scanners.                                *)
(* Each Run_* operator computes what the C++ function computes and also    *)
(* the set of addresses it reads: [result, reads, returned].               *)
(***************************************************************************)
Tiers == {"Scalar", "SSE2", "AVX2"}

\* Mutant: the last byte is not compared
memcmp_ShortByOne(addr, pattern, n) ==
    IF \A i \in 0 .. (n - 2) : ByteAt(Wrap(addr + i)) = pattern[i + 1] THEN 0 ELSE 1

\* memcmp((const void*)addr, pattern, n): 0 iff the n bytes are equal
memcmp(addr, pattern, n) ==
    IF \A i \in 0 .. (n - 1) : ByteAt(Wrap(addr + i)) = pattern[i + 1] THEN 0 ELSE 1

\* the bytes memcmp(addr, pattern, n) compares
MemcmpReads(addr, n) == { Wrap(addr + i) : i \in 0 .. (n - 1) }

\* the bytes of one unaligned vector load of `width` bytes at addr
VectorReads(addr, width) == { Wrap(addr + i) : i \in 0 .. (width - 1) }

\* _mm_cmpeq_epi8 + _mm_movemask_epi8: the offsets whose byte equals b
FirstByteMask(addr, width, b) ==
    { i \in 0 .. (width - 1) : ByteAt(Wrap(addr + i)) = b }

\* Mutant: the highest set bit (_BitScanReverse) instead of the lowest
BitScanReverse(mask) == CHOOSE i \in mask : \A j \in mask : i >= j

\* _BitScanForward: index of the lowest set bit
BitScanForward(mask) == CHOOSE i \in mask : \A j \in mask : i <= j

NoMatch(reads) == [result |-> 0, reads |-> reads, returned |-> FALSE]

\* for (addr = from; addr < scan_end; ++addr) if (!memcmp(...)) return addr;
\* The loop in closed form: it stops at the lowest address of from .. scan_end - 1
\* whose bytes compare equal, having compared at every address up to it (the
\* comparisons at from .. last read the bytes from .. last + pattern_len - 1).
ScalarLoop(from, scan_end, pattern, pattern_len, reads) ==
    LET hits == { a \in from .. (scan_end - 1) : memcmp(a, pattern, pattern_len) = 0 }
        Compared(last) == { Wrap(x) : x \in from .. (last + pattern_len - 1) }
    IN  IF hits # {}
        THEN LET addr == CHOOSE a \in hits : \A b \in hits : a <= b IN
             [result |-> addr, reads |-> reads \cup Compared(addr), returned |-> TRUE]
        ELSE IF from < scan_end
             THEN NoMatch(reads \cup Compared(scan_end - 1))
             ELSE NoMatch(reads)

\* while (mask != 0) { candidate = addr + lowest bit; memcmp; mask &= mask - 1; }
RECURSIVE MaskLoop(_, _, _, _, _)
MaskLoop(mask, addr, pattern, pattern_len, reads) ==
    IF mask # {}
    THEN LET offset == BitScanForward(mask)
             candidate == Wrap(addr + offset)
             rd == reads \cup MemcmpReads(candidate, pattern_len)
         IN  IF memcmp(candidate, pattern, pattern_len) = 0
             THEN [result |-> candidate, reads |-> rd, returned |-> TRUE]
             ELSE MaskLoop(mask \ {offset}, addr, pattern, pattern_len, rd)
    ELSE NoMatch(reads)

\* for (addr = start; addr < simd_end; addr += width) { load; compare; mask loop }
RECURSIVE SimdLoop(_, _, _, _, _, _)
SimdLoop(width, addr, simd_end, pattern, pattern_len, reads) ==
    IF addr < simd_end
    THEN LET rd == reads \cup VectorReads(addr, width)
             mask == FirstByteMask(addr, width, pattern[1])
             m == MaskLoop(mask, addr, pattern, pattern_len, rd)
         IN  IF m.returned
             THEN m
             ELSE SimdLoop(width, Wrap(addr + width), simd_end,
                           pattern, pattern_len, m.reads)
    ELSE NoMatch(reads)

\* scan_end & ~(width - 1)
RoundDown(scan_end, width) == scan_end - (scan_end % width)

Run_Scalar(start, end, pattern, pattern_len) ==
    IF pattern_len = 0 \/ start >= end
    THEN NoMatch({})
    ELSE LET scan_end == Wrap(end - pattern_len + 1) IN
         IF scan_end <= start
         THEN NoMatch({})
         ELSE ScalarLoop(start, scan_end, pattern, pattern_len, {})

Run_SSE2(start, end, pattern, pattern_len) ==
    IF pattern_len = 0 \/ start >= end
    THEN NoMatch({})
    ELSE LET scan_end == Wrap(end - pattern_len + 1) IN
         IF scan_end <= start
         THEN NoMatch({})
         ELSE LET simd_end == RoundDown(scan_end, 16)
                  s == SimdLoop(16, start, simd_end, pattern, pattern_len, {})
              IN  IF s.returned
                  THEN s
                  ELSE ScalarLoop(simd_end, scan_end, pattern, pattern_len, s.reads)

Run_AVX2(start, end, pattern, pattern_len) ==
    IF pattern_len = 0 \/ start >= end
    THEN NoMatch({})
    ELSE LET scan_end == Wrap(end - pattern_len + 1) IN
         IF scan_end <= start
         THEN NoMatch({})
         ELSE LET simd_end == RoundDown(scan_end, 32)
                  s == SimdLoop(32, start, simd_end, pattern, pattern_len, {})
              IN  IF s.returned
                  THEN s
                  ELSE ScalarLoop(simd_end, scan_end, pattern, pattern_len, s.reads)

ScanPattern_Scalar(start, end, pattern, pattern_len) ==
    Run_Scalar(start, end, pattern, pattern_len).result

ScanPattern_SSE2(start, end, pattern, pattern_len) ==
    Run_SSE2(start, end, pattern, pattern_len).result

ScanPattern_AVX2(start, end, pattern, pattern_len) ==
    Run_AVX2(start, end, pattern, pattern_len).result

(***************************************************************************)
(* Memory images                                                           *)
(***************************************************************************)
Blank == << >>

\* memory m with the bytes of seq written at p .. p + Len(seq) - 1
PlantAt(m, p, seq) ==
    Append(m, [at |-> p, bytes |-> seq])

(***************************************************************************)
(* PatternScanning.cpp: DetectCPUFeatures                                  *)
(*   hw is what CPUID and XGETBV report: edx26, ecx27, ecx28 are bits of   *)
(*   leaf 1, xcr0 the XCR0 feature mask (its low three bits), maxLeaf the  *)
(*   highest CPUID leaf, ebx5 bit 5 of EBX of leaf 7.                      *)
(***************************************************************************)
Hardware ==
    [edx26 : BOOLEAN, ecx27 : BOOLEAN, ecx28 : BOOLEAN,
     xcr0 : 0 .. 7, maxLeaf : {1, 7}, ebx5 : BOOLEAN]

\* (xcrFeatureMask & 0x6) == 0x6
XmmYmmEnabled(xcr0) == (xcr0 \div 2) % 2 = 1 /\ (xcr0 \div 4) % 2 = 1

\* _xgetbv raises #UD unless the OS has enabled XSAVE, which ECX bit 27 reports
XgetbvRaises(hw) == ~hw.ecx27

\* lines 59-64: _xgetbv is executed only under if (osxsave && cpuAvx)
DetectCPUFeaturesRaises(hw) ==
    LET osxsave == hw.ecx27
        cpuAvx == hw.ecx28
    IN  IF osxsave /\ cpuAvx THEN XgetbvRaises(hw) ELSE FALSE

\* Mutant: AVX2 is taken from CPUID alone, without the OS check
DetectCPUFeatures_NoOsCheck(hw) ==
    [sse2 |-> hw.edx26,
     avx2 |-> IF hw.maxLeaf >= 7 THEN hw.ebx5 ELSE FALSE]

DetectCPUFeatures(hw) ==
    LET osxsave == hw.ecx27
        cpuAvx == hw.ecx28
        osAvxSupport == IF osxsave /\ cpuAvx THEN XmmYmmEnabled(hw.xcr0) ELSE FALSE
    IN  [sse2 |-> hw.edx26,
         avx2 |-> IF hw.maxLeaf >= 7 /\ osAvxSupport THEN hw.ebx5 ELSE FALSE]

\* the descriptors DetectCPUFeatures can return
DetectableFeatures == { DetectCPUFeatures(hw) : hw \in Hardware }

(***************************************************************************)
(* PatternScanning.cpp: GetCommentAddress                                  *)
(***************************************************************************)
kScanStartOffset == 2 ^ PageBits
kScanSize == 2 ^ ScanBits

ScanStart == Wrap(base + kScanStartOffset)
ScanEnd == Wrap(ScanStart + kScanSize)

NullOpt == [has |-> FALSE, value |-> 0]
Some(v) == [has |-> TRUE, value |-> v]

\* the hardware faults a tier can raise
Faults == {"ACCESS_VIOLATION", "ILLEGAL_INSTRUCTION"}

\* Mutant: the AVX2 block handles access violations only
FilterAVX2_AccessViolationOnly(code) == code = "ACCESS_VIOLATION"

\* the __except filter of the AVX2 block: EXCEPTION_EXECUTE_HANDLER or not
FilterAVX2(code) == code = "ACCESS_VIOLATION" \/ code = "ILLEGAL_INSTRUCTION"

\* the __except filter of the SSE2 block
FilterSSE2(code) == code = "ACCESS_VIOLATION"

\* Mutant: the scalar block handles access violations only
FilterScalar_AccessViolationOnly(code) == code = "ACCESS_VIOLATION"

\* the __except filter of the scalar block: EXCEPTION_EXECUTE_HANDLER
FilterScalar(code) == TRUE

\* one attempted tier: how the scan ended ("completed" or the fault raised), the
\* address it returned, and the __try blocks that enclosed the call
Attempt(tier, outcome, found, handlers) ==
    [tier |-> tier, outcome |-> outcome, found |-> found, handlers |-> handlers]

Event(op, addr, ok) == [op |-> op, addr |-> addr, ok |-> ok]

installVars == <<hookBuffer, ichRet, allocated, freed, writable, oldProtect, flushed,
                 codeSize, mem0, wlj, calls>>
hostVars == <<base, caller, queried, loads, ret>>

\* lines 205-233: the range, the capability descriptor, result = 0
GCA_Begin ==
    /\ pc = "gca_begin"
    /\ cpu' \in DetectableFeatures
    /\ result' = 0
    /\ method_used' = "unknown"
    /\ attempts' = << >>
    /\ pc' = "gca_avx2"
    /\ UNCHANGED <<mem, scanVars, unitVars, hostVars, commentAddress, installVars, hist>>

\* lines 240-257: if (cpu.avx2 && !result) __try { ScanPattern_AVX2 } __except (...)
GCA_TryAVX2 ==
    /\ pc = "gca_avx2"
    /\ IF cpu.avx2 /\ result = 0
       THEN \/ LET r == ScanPattern_AVX2(ScanStart, ScanEnd, kCommentBytes,
                                         kCommentByteCount) IN
               /\ result' = r
               /\ method_used' = IF r # 0 THEN "AVX2" ELSE method_used
               /\ attempts' = Append(attempts, Attempt("AVX2", "completed", r, <<"AVX2">>))
               /\ cpu' = cpu
               /\ pc' = "gca_sse2"
            \/ \E code \in Faults :
               /\ attempts' = Append(attempts, Attempt("AVX2", code, 0, <<"AVX2">>))
               /\ IF FilterAVX2(code)
                  THEN /\ cpu' = [cpu EXCEPT !.avx2 = FALSE]
                       /\ result' = 0
                       /\ pc' = "gca_sse2"
                  ELSE /\ UNCHANGED <<cpu, result>>
                       /\ pc' = "unhandled"
               /\ UNCHANGED method_used
       ELSE /\ pc' = "gca_sse2"
            /\ UNCHANGED <<cpu, result, method_used, attempts>>
    /\ UNCHANGED <<mem, scanVars, unitVars, hostVars, commentAddress, installVars, hist>>

\* lines 260-273: if (cpu.sse2 && !result) __try { ScanPattern_SSE2 } __except (...)
GCA_TrySSE2 ==
    /\ pc = "gca_sse2"
    /\ IF cpu.sse2 /\ result = 0
       THEN \/ LET r == ScanPattern_SSE2(ScanStart, ScanEnd, kCommentBytes,
                                         kCommentByteCount) IN
               /\ result' = r
               /\ method_used' = IF r # 0 THEN "SSE2" ELSE method_used
               /\ attempts' = Append(attempts, Attempt("SSE2", "completed", r, <<"SSE2">>))
               /\ pc' = "gca_scalar"
            \/ \E code \in Faults :
               /\ attempts' = Append(attempts, Attempt("SSE2", code, 0, <<"SSE2">>))
               /\ IF FilterSSE2(code)
                  THEN /\ result' = 0
                       /\ pc' = "gca_scalar"
                  ELSE /\ UNCHANGED result
                       /\ pc' = "unhandled"
               /\ UNCHANGED method_used
       ELSE /\ pc' = "gca_scalar"
            /\ UNCHANGED <<result, method_used, attempts>>
    /\ UNCHANGED <<mem, scanVars, unitVars, hostVars, cpu, commentAddress, installVars, hist>>

\* what GetCommentAddress hands its caller, and where the caller continues
ReturnFromGCA(value) ==
    /\ commentAddress' = value
    /\ hist' = Append(hist, Event("locate", value.value, value.has))
    /\ pc' = IF caller = "Query" THEN "query_located" ELSE "load_located"

\* lines 276-306: if (!result) __try { ScanPattern_Scalar } __except (...) return nullopt;
\* then return result, or nullopt when it is 0
GCA_Scalar ==
    /\ pc = "gca_scalar"
    /\ IF result = 0
       THEN \/ LET r == ScanPattern_Scalar(ScanStart, ScanEnd, kCommentBytes,
                                           kCommentByteCount) IN
               /\ result' = r
               /\ method_used' = IF r # 0 THEN "Scalar" ELSE method_used
               /\ attempts' = Append(attempts, Attempt("Scalar", "completed", r, <<"Scalar">>))
               /\ ReturnFromGCA(IF r # 0 THEN Some(r) ELSE NullOpt)
            \/ \E code \in Faults :
               /\ attempts' = Append(attempts, Attempt("Scalar", code, 0, <<"Scalar">>))
               /\ IF FilterScalar(code)
                  THEN ReturnFromGCA(NullOpt)
                  ELSE /\ pc' = "unhandled"
                       /\ UNCHANGED <<commentAddress, hist>>
               /\ UNCHANGED <<result, method_used>>
       ELSE /\ ReturnFromGCA(Some(result))
            /\ UNCHANGED <<result, method_used, attempts>>
    /\ UNCHANGED <<mem, scanVars, unitVars, hostVars, cpu, installVars>>

(***************************************************************************)
(* Hook.cpp                                                                *)
(***************************************************************************)
kMinJumpSize == 13
kHookBufferSize == 256

\* v >> (8 * k)
RECURSIVE ShiftRight8(_, _)
ShiftRight8(v, k) == IF k = 0 THEN v ELSE ShiftRight8(v \div 256, k - 1)

\* the 8 bytes of a 64-bit value, least significant first
LittleEndian8(v) == [i \in 1 .. 8 |-> ShiftRight8(v, i - 1) % 256]

\* Mutant: mov rax, destination; jmp rax
Payload_ViaRax(destination) == <<72, 184>> \o LittleEndian8(destination) \o <<255, 224>>

\* payload[] with *(void**)(payload + 2) = destination
Payload(destination) == <<73, 187>> \o LittleEndian8(destination) \o <<65, 255, 227>>

\* Mutant: the padding is one byte longer
Patched_OneNopMore(source, destination, length) ==
    PlantAt(mem, source, Payload(destination) \o [i \in 1 .. (length - 12) |-> 144])

\* memcpy(source, payload, 13); memset(source + 13, 0x90, length - 13)
Patched(source, destination, length) ==
    PlantAt(mem, source, Payload(destination) \o [i \in 1 .. (length - 13) |-> 144])

\* Mutant: the null address is not refused
IsBinaryCompatible_NoNullCheck(address) ==
    memcmp(address, kCommentBytes, kCommentByteCount) = 0

IsBinaryCompatible(address) ==
    IF address = 0
    THEN FALSE
    ELSE memcmp(address, kCommentBytes, kCommentByteCount) = 0

\* the size of the code CommentHookCode emits (Xbyak getSize), instruction by instruction
CommentHookCodeSize ==
    2          \* xor ebp, ebp
    + 1 + 1    \* push rax; push rax
    + 1 + 1    \* push rcx; push rdx
    + 3        \* mov rcx, rdi
    + 10       \* mov rax, imm64
    + 2        \* call rax
    + 2        \* test al, al
    + 1 + 1    \* pop rdx; pop rcx
    + 1 + 1    \* pop rax; pop rax
    + 4        \* setnz bpl
    + 5        \* mov eax, 1
    + 1        \* push rax
    + 10       \* mov rax, imm64
    + 4        \* xchg rax, [rsp]
    + 1        \* ret

\* VirtualAlloc(nullptr, ...): the next free 64 KiB granule outside the image
VirtualAlloc == (Cardinality(allocated) + 1) * 65536

gcaVars == <<cpu, result, method_used, attempts>>

\* the locals of GetCommentAddress after it has returned
GCA_Gone ==
    /\ cpu' = [sse2 |-> FALSE, avx2 |-> FALSE]
    /\ result' = 0
    /\ method_used' = "unknown"
    /\ attempts' = << >>

\* WriteLongJmp64 is not running
NoJump == [source |-> 0, destination |-> 0, length |-> 0]

\* one step of WriteLongJmp64 on the range [at, at + len)
Step(op, at, len, ok) == [op |-> op, at |-> at, len |-> len, ok |-> ok]

\* the locals of InstallCommentHook and WriteLongJmp64 after they have returned
ICH_Gone ==
    /\ hookBuffer' = 0
    /\ ichRet' = "none"
    /\ oldProtect' = "RX"
    /\ wlj' = NoJump
    /\ calls' = << >>

\* lines 166-177: VirtualAlloc; on failure return false
ICH_Alloc ==
    /\ pc = "ich_alloc"
    /\ \/ /\ hookBuffer' = VirtualAlloc
          /\ allocated' = allocated \cup {VirtualAlloc}
          /\ pc' = "ich_generate"
          /\ UNCHANGED ichRet
       \/ /\ hookBuffer' = 0
          /\ ichRet' = "false"
          /\ pc' = "load_installed"
          /\ UNCHANGED allocated
    /\ UNCHANGED <<mem, scanVars, unitVars, hostVars, gcaVars, commentAddress, freed, writable,
                   oldProtect, flushed, codeSize, mem0, wlj, calls, hist>>

\* Mutant: the size of the generated code is never checked
Oversized_Never(size) == FALSE

\* if (codeSize > kHookBufferSize)
Oversized(size) == size > kHookBufferSize

\* WriteLongJmp64(source, destination, length), called at line 206 with
\* source = commentAddress, destination = code.getCode(), length = kCommentByteCount
Source == commentAddress.value
Length == kCommentByteCount

\* Mutant: the oversized buffer is released but the installation goes on
ICH_Generate_FreesAndGoesOn ==
    /\ pc = "ich_generate"
    /\ freed' = IF Oversized(codeSize) THEN freed \cup {hookBuffer} ELSE freed
    /\ wlj' = [source |-> Source, destination |-> hookBuffer, length |-> Length]
    /\ pc' = "wlj_protect"
    /\ UNCHANGED <<mem, scanVars, unitVars, hostVars, gcaVars, commentAddress, hookBuffer, ichRet,
                   allocated, writable, oldProtect, flushed, codeSize, mem0, calls, hist>>

\* lines 185-206: generate the hook code; if it is larger than the buffer,
\* VirtualFree and return false; otherwise call WriteLongJmp64
ICH_Generate ==
    /\ pc = "ich_generate"
    /\ IF Oversized(codeSize)
       THEN /\ freed' = freed \cup {hookBuffer}
            /\ ichRet' = "false"
            /\ pc' = "load_installed"
            /\ UNCHANGED wlj
       ELSE /\ wlj' = [source |-> Source, destination |-> hookBuffer, length |-> Length]
            /\ pc' = "wlj_protect"
            /\ UNCHANGED <<freed, ichRet>>
    /\ UNCHANGED <<mem, scanVars, unitVars, hostVars, gcaVars, commentAddress, hookBuffer,
                   allocated, writable, oldProtect, flushed, codeSize, mem0, calls, hist>>

\* Mutant: a failed VirtualProtect is ignored
AfterProtect_IgnoresFailure(ok) == "wlj_write"

\* where WriteLongJmp64 continues after the first VirtualProtect returned ok
AfterProtect(ok) == IF ok THEN "wlj_write" ELSE "ich_return"

\* lines 44-64: the length check, then VirtualProtect(PAGE_EXECUTE_READWRITE);
\* return when either fails
WLJ_Protect ==
    /\ pc = "wlj_protect"
    /\ IF wlj.length < kMinJumpSize
       THEN /\ pc' = "ich_return"
            /\ UNCHANGED <<writable, oldProtect, calls>>
       ELSE \E ok \in BOOLEAN :
            /\ oldProtect' = IF ~ok THEN oldProtect
                              ELSE IF wlj.source \in writable THEN "RWX" ELSE "RX"
            /\ writable' = IF ok THEN writable \cup {wlj.source} ELSE writable
            /\ calls' = Append(calls, Step("protect", wlj.source, wlj.length, ok))
            /\ pc' = AfterProtect(ok)
    /\ UNCHANGED <<mem, scanVars, unitVars, hostVars, gcaVars, commentAddress, hookBuffer, ichRet,
                   allocated, freed, flushed, codeSize, mem0, wlj, hist>>

\* lines 66-68: the trampoline and the NOP padding
WLJ_Write ==
    /\ pc = "wlj_write"
    /\ mem' = Patched(wlj.source, wlj.destination, wlj.length)
    /\ calls' = Append(calls, Step("write", wlj.source, wlj.length, TRUE))
    /\ hist' = Append(hist, Event("write", wlj.source, TRUE))
    /\ pc' = "wlj_restore"
    /\ UNCHANGED <<scanVars, unitVars, hostVars, gcaVars, commentAddress, hookBuffer, ichRet,
                   allocated, freed, writable, oldProtect, flushed, codeSize, mem0, wlj>>

\* Mutant: a failed restore makes WriteLongJmp64 return
AfterRestore_AbortsOnFailure(ok) == IF ok THEN "wlj_flush" ELSE "ich_return"

\* where WriteLongJmp64 continues after the restoring VirtualProtect returned ok
AfterRestore(ok) == "wlj_flush"

\* lines 70-73: VirtualProtect(oldProtect); a failure is only logged
WLJ_Restore ==
    /\ pc = "wlj_restore"
    /\ \E ok \in BOOLEAN :
          /\ writable' = IF ok /\ oldProtect = "RX"
                         THEN writable \ {wlj.source}
                         ELSE writable
          /\ calls' = Append(calls, Step("restore", wlj.source, wlj.length, ok))
          /\ pc' = AfterRestore(ok)
    /\ UNCHANGED <<mem, scanVars, unitVars, hostVars, gcaVars, commentAddress, hookBuffer, ichRet,
                   allocated, freed, oldProtect, flushed, codeSize, mem0, wlj, hist>>

\* Mutant: only the 13 bytes of the jump are flushed
FlushRange_JumpOnly(source, length) == <<source, 13>>

\* the range given to FlushInstructionCache
FlushRange(source, length) == <<source, length>>

\* line 76: FlushInstructionCache(GetCurrentProcess(), source, length)
WLJ_Flush ==
    /\ pc = "wlj_flush"
    /\ LET range == FlushRange(wlj.source, wlj.length) IN
          /\ flushed' = flushed \cup {range}
          /\ calls' = Append(calls, Step("flush", range[1], range[2], TRUE))
    /\ pc' = "ich_return"
    /\ UNCHANGED <<mem, scanVars, unitVars, hostVars, gcaVars, commentAddress, hookBuffer, ichRet,
                   allocated, freed, writable, oldProtect, codeSize, mem0, wlj, hist>>

\* lines 208-212: return true
ICH_Return ==
    /\ pc = "ich_return"
    /\ ichRet' = "true"
    /\ pc' = "load_installed"
    /\ UNCHANGED <<mem, scanVars, unitVars, hostVars, gcaVars, commentAddress, hookBuffer,
                   allocated, freed, writable, oldProtect, flushed, codeSize, mem0, wlj,
                   calls, hist>>

(***************************************************************************)
(* Main.cpp: SKSEPlugin_Query and SKSEPlugin_Load, called by the host      *)
(***************************************************************************)
\* Config.cpp: LoadConfiguration has no failing path
LoadConfiguration == TRUE

\* lines 55-79: the editor and runtime-version checks, then GetCommentAddress
SKSEPlugin_Query ==
    /\ pc = "host"
    /\ ~queried
    /\ loads = 0
    /\ queried' = TRUE
    /\ caller' = "Query"
    /\ \E isEditor \in BOOLEAN, versionOk \in BOOLEAN :
          IF isEditor \/ ~versionOk
          THEN /\ ret' = "false"
               /\ pc' = "host"
          ELSE /\ ret' = "none"
               /\ pc' = "gca_begin"
    /\ UNCHANGED <<mem, scanVars, unitVars, base, loads, gcaVars, commentAddress, installVars, hist>>

\* lines 80-98: no address: return false; otherwise return IsBinaryCompatible
Query_Located ==
    /\ pc = "query_located"
    /\ IF ~commentAddress.has
       THEN /\ ret' = "false"
            /\ UNCHANGED hist
       ELSE LET ok == IsBinaryCompatible(commentAddress.value) IN
            /\ hist' = Append(hist, Event("verify", commentAddress.value, ok))
            /\ ret' = IF ok THEN "true" ELSE "false"
    /\ pc' = "host"
    /\ GCA_Gone
    /\ commentAddress' = NullOpt
    /\ UNCHANGED <<mem, scanVars, unitVars, base, caller, queried, loads, installVars>>

\* Mutant: SKSEPlugin_Load reports failure when the hook is not in place
LoadReturns_FailsWithoutHook(stage) == IF stage = "complete" THEN "true" ELSE "false"

\* what SKSEPlugin_Load returns when it ends at a stage: "config" (line 126),
\* "locate" (line 135), "install" (line 141), "complete" (line 167)
LoadReturns(stage) == IF stage = "config" THEN "false" ELSE "true"

\* lines 104-131: logging, LoadConfiguration, then GetCommentAddress.
\* The host loads the plugin only if it was not refused by SKSEPlugin_Query.
SKSEPlugin_LoadWithin(limit) ==
    /\ pc = "host"
    /\ loads < limit
    /\ queried => ret = "true"
    /\ loads' = loads + 1
    /\ caller' = "Load"
    /\ IF ~LoadConfiguration
       THEN /\ ret' = LoadReturns("config")
            /\ pc' = "host"
       ELSE /\ ret' = "none"
            /\ pc' = "gca_begin"
    /\ mem0' = mem
    /\ UNCHANGED <<mem, scanVars, unitVars, base, queried, gcaVars, commentAddress, hookBuffer,
                   ichRet, allocated, freed, writable, oldProtect, flushed, codeSize,
                   wlj, calls, hist>>

SKSEPlugin_Load == SKSEPlugin_LoadWithin(MaxLoads)

\* lines 132-138: no address: return true; otherwise InstallCommentHook(*commentAddress)
Load_Located ==
    /\ pc = "load_located"
    /\ IF ~commentAddress.has
       THEN /\ ret' = LoadReturns("locate")
            /\ pc' = "host"
            /\ UNCHANGED mem0
       ELSE /\ ret' = ret
            /\ pc' = "ich_alloc"
            /\ mem0' = mem
    /\ GCA_Gone
    /\ UNCHANGED <<mem, scanVars, unitVars, base, caller, queried, loads, commentAddress,
                   hookBuffer, ichRet, allocated, freed, writable, oldProtect, flushed,
                   codeSize, wlj, calls, hist>>

\* lines 138-167: return true whether or not the hook was installed
Load_Installed ==
    /\ pc = "load_installed"
    /\ ret' = IF ichRet = "true" THEN LoadReturns("complete") ELSE LoadReturns("install")
    /\ hist' = Append(hist, Event("install", commentAddress.value, ichRet = "true"))
    /\ pc' = "host"
    /\ ICH_Gone
    /\ commentAddress' = NullOpt
    /\ UNCHANGED <<mem, scanVars, unitVars, base, caller, queried, loads, gcaVars, allocated, freed,
                   writable, flushed, codeSize, mem0>>

\* the signature with its last byte changed
Corrupted == [kCommentBytes EXCEPT ![kCommentByteCount] = FillByte]

Bases == { k * kScanStartOffset : k \in 1 .. MaxBase }

\* the host images: no signature; the signature; a corrupted signature
\* followed by the signature; the signature twice
HostImages(b) ==
    LET s == b + kScanStartOffset IN
    {Blank}
    \cup { PlantAt(Blank, s + o, kCommentBytes) : o \in 0 .. MaxSigOff }
    \cup { PlantAt(PlantAt(Blank, s + o, Corrupted), s + o + kCommentByteCount,
                   kCommentBytes) : o \in 0 .. MaxSigOff }
    \cup { PlantAt(PlantAt(Blank, s + o, kCommentBytes), s + o + kCommentByteCount,
                   kCommentBytes) : o \in 0 .. MaxSigOff }

\* no unit is being exercised on its own
UnitIdle ==
    /\ hardware = [edx26 |-> FALSE, ecx27 |-> FALSE, ecx28 |-> FALSE,
                   xcr0 |-> 0, maxLeaf |-> 1, ebx5 |-> FALSE]
    /\ regs = << >>
    /\ rsp = 0
    /\ stack = << >>
    /\ zf = FALSE
    /\ ip = 0
    /\ entry = << >>
    /\ callbacks = << >>
    /\ resumeAt = 0
    /\ g_config = << >>
    /\ scene = << >>

ScanIdle ==
    /\ argStart = 0
    /\ argEnd = 0
    /\ argPattern = << >>
    /\ out = << >>

ProgIdle ==
    /\ caller = "none"
    /\ queried = FALSE
    /\ loads = 0
    /\ ret = "none"
    /\ cpu = [sse2 |-> FALSE, avx2 |-> FALSE]
    /\ result = 0
    /\ method_used = "unknown"
    /\ attempts = << >>
    /\ commentAddress = NullOpt
    /\ hookBuffer = 0
    /\ ichRet = "none"
    /\ allocated = {}
    /\ freed = {}
    /\ writable = {}
    /\ oldProtect = "RX"
    /\ flushed = {}
    /\ codeSize = CommentHookCodeSize
    /\ mem0 = Blank
    /\ wlj = NoJump
    /\ calls = << >>
    /\ hist = << >>

Init ==
    /\ base \in Bases
    /\ mem \in HostImages(base)
    /\ pc = "host"
    /\ ScanIdle
    /\ UnitIdle
    /\ ProgIdle

Next ==
    \/ SKSEPlugin_Query
    \/ Query_Located
    \/ SKSEPlugin_Load
    \/ Load_Located
    \/ Load_Installed
    \/ GCA_Begin
    \/ GCA_TryAVX2
    \/ GCA_TrySSE2
    \/ GCA_Scalar
    \/ ICH_Alloc
    \/ ICH_Generate
    \/ WLJ_Protect
    \/ WLJ_Write
    \/ WLJ_Restore
    \/ WLJ_Flush
    \/ ICH_Return

Spec == Init /\ [][Next]_vars

(***************************************************************************)
(* Scanner harness: the three scanners applied to the same arguments over  *)
(* the same memory.                                                        *)
(***************************************************************************)
Prefix(n) == SubSeq(kCommentBytes, 1, n)

Patterns == { Prefix(n) : n \in 1 .. MaxPatLen }

\* one fragment, or the same fragment twice
Fragments == { Prefix(1), Prefix(MaxPatLen) }

ScanMems ==
    { PlantAt(Blank, p, f) : p \in 0 .. MaxPlant, f \in Fragments }
    \cup { PlantAt(PlantAt(Blank, p, f), p + Len(f), f) :
             p \in 0 .. MaxPlant, f \in Fragments }

ScanStarts == { c + a : c \in {0, 16}, a \in 0 .. MaxStartOff }

ScanInit ==
    /\ mem \in ScanMems
    /\ argStart \in ScanStarts
    /\ \E len \in 0 .. MaxRange : argEnd = argStart + len
    /\ argPattern \in Patterns
    /\ out = << >>
    /\ pc = "scalar"
    /\ base = 0
    /\ ProgIdle
    /\ UnitIdle

CallScalar ==
    /\ pc = "scalar"
    /\ out' = out @@ ("Scalar" :> Run_Scalar(argStart, argEnd, argPattern, Len(argPattern)))
    /\ pc' = "sse2"
    /\ UNCHANGED <<mem, argStart, argEnd, argPattern, progVars, unitVars>>

CallSSE2 ==
    /\ pc = "sse2"
    /\ out' = out @@ ("SSE2" :> Run_SSE2(argStart, argEnd, argPattern, Len(argPattern)))
    /\ pc' = "avx2"
    /\ UNCHANGED <<mem, argStart, argEnd, argPattern, progVars, unitVars>>

CallAVX2 ==
    /\ pc = "avx2"
    /\ out' = out @@ ("AVX2" :> Run_AVX2(argStart, argEnd, argPattern, Len(argPattern)))
    /\ pc' = "scanned"
    /\ UNCHANGED <<mem, argStart, argEnd, argPattern, progVars, unitVars>>

ScanNext == CallScalar \/ CallSSE2 \/ CallAVX2

ScanSpec == ScanInit /\ [][ScanNext]_vars

(***************************************************************************)
(* Installer harness: InstallCommentHook called on an address of a host     *)
(* image, with the size of the generated code at, or one above, the size of *)
(* the buffer.                                                              *)
(***************************************************************************)
GeneratedSizes == {CommentHookCodeSize, kHookBufferSize, kHookBufferSize + 1}

InstallTargets(b) == { b + kScanStartOffset + o : o \in {0, 1, MaxSigOff} }

InstallInit ==
    /\ base \in Bases
    /\ mem \in HostImages(base)
    /\ commentAddress \in { Some(a) : a \in InstallTargets(base) }
    /\ codeSize \in GeneratedSizes
    /\ pc = "ich_alloc"
    /\ ScanIdle
    /\ UnitIdle
    /\ caller = "Load" /\ queried = FALSE /\ loads = 1 /\ ret = "none"
    /\ cpu = [sse2 |-> FALSE, avx2 |-> FALSE]
    /\ result = 0 /\ method_used = "unknown" /\ attempts = << >>
    /\ hookBuffer = 0 /\ ichRet = "none"
    /\ allocated = {} /\ freed = {} /\ writable = {} /\ oldProtect = "RX"
    /\ flushed = {} /\ wlj = NoJump /\ calls = << >> /\ hist = << >>
    /\ mem0 = mem

InstallNext ==
    \/ ICH_Alloc
    \/ ICH_Generate
    \/ WLJ_Protect
    \/ WLJ_Write
    \/ WLJ_Restore
    \/ WLJ_Flush
    \/ ICH_Return

InstallSpec == InstallInit /\ [][InstallNext]_vars

(***************************************************************************)
(* WriteLongJmp64 harness: the function called with any source,            *)
(* destination and length.                                                 *)
(***************************************************************************)
JumpSources == { kScanStartOffset + o : o \in 0 .. MaxJumpOff }

JumpDestinations == { k * 65536 + j * 4660 : k \in 1 .. MaxBuffers, j \in 0 .. 1 }

JumpInit ==
    /\ base = 0
    /\ mem \in {Blank, PlantAt(Blank, kScanStartOffset, kCommentBytes)}
    /\ wlj \in [source : JumpSources, destination : JumpDestinations,
                 length : 0 .. MaxLength]
    /\ pc = "wlj_protect"
    /\ ScanIdle
    /\ UnitIdle
    /\ caller = "none" /\ queried = FALSE /\ loads = 0 /\ ret = "none"
    /\ cpu = [sse2 |-> FALSE, avx2 |-> FALSE]
    /\ result = 0 /\ method_used = "unknown" /\ attempts = << >>
    /\ commentAddress = NullOpt /\ codeSize = CommentHookCodeSize
    /\ hookBuffer = 0 /\ ichRet = "none"
    /\ allocated = {} /\ freed = {} /\ writable = {} /\ oldProtect = "RX"
    /\ flushed = {} /\ calls = << >> /\ hist = << >>
    /\ mem0 = mem

JumpNext ==
    \/ WLJ_Protect
    \/ WLJ_Write
    \/ WLJ_Restore
    \/ WLJ_Flush

JumpSpec == JumpInit /\ [][JumpNext]_vars

(***************************************************************************)
(* IsBinaryCompatible harness: the function called on an address of a      *)
(* memory that holds the signature, or the signature with one byte changed.*)
(***************************************************************************)
\* the signature with byte k changed by delta
Flipped(k, delta) ==
    [kCommentBytes EXCEPT ![k] = (kCommentBytes[k] + delta) % 256]

FlipDeltas == {1, 128}

VerifyPlaces == {0, kScanStartOffset}

VerifyImages ==
    {Blank}
    \cup { PlantAt(Blank, t, kCommentBytes) : t \in VerifyPlaces }
    \cup { PlantAt(Blank, t, Flipped(k, delta)) :
             t \in VerifyPlaces, k \in 1 .. kCommentByteCount, delta \in FlipDeltas }

VerifyAddresses == { t + o : t \in VerifyPlaces, o \in 0 .. MaxVerifyOff }

VerifyInit ==
    /\ base = 0
    /\ mem \in VerifyImages
    /\ mem0 = mem
    /\ commentAddress \in { Some(a) : a \in VerifyAddresses }
    /\ pc = "verify"
    /\ ScanIdle
    /\ UnitIdle
    /\ caller = "none" /\ queried = FALSE /\ loads = 0 /\ ret = "none"
    /\ cpu = [sse2 |-> FALSE, avx2 |-> FALSE]
    /\ result = 0 /\ method_used = "unknown" /\ attempts = << >>
    /\ codeSize = CommentHookCodeSize
    /\ hookBuffer = 0 /\ ichRet = "none"
    /\ allocated = {} /\ freed = {} /\ writable = {} /\ oldProtect = "RX"
    /\ flushed = {} /\ wlj = NoJump /\ calls = << >> /\ hist = << >>

\* bool IsBinaryCompatible(uintptr_t commentAddress): it reads and logs only
CallIsBinaryCompatible ==
    /\ pc = "verify"
    /\ LET ok == IsBinaryCompatible(commentAddress.value) IN
          /\ ret' = IF ok THEN "true" ELSE "false"
          /\ hist' = Append(hist, Event("verify", commentAddress.value, ok))
    /\ pc' = "verified"
    /\ UNCHANGED <<mem, scanVars, unitVars, base, caller, queried, loads, gcaVars, commentAddress,
                   installVars>>

VerifyNext == CallIsBinaryCompatible

VerifySpec == VerifyInit /\ [][VerifyNext]_vars

(***************************************************************************)
(* Hook.cpp: the code CommentHookCode generates, run on the registers and  *)
(* the stack of the thread that reaches the patched target.                *)
(*                                                                         *)
(* A register value is written [hi, lo]: its upper and its lower 32 bits.  *)
(* An address is a value with hi = 0.                                      *)
(***************************************************************************)
MaxSeed == 1
MaxHandle == 1
StackFrames == 4

Val(hi, lo) == [hi |-> hi, lo |-> lo]

RegNames ==
    <<"rax", "rcx", "rdx", "rbx", "rbp", "rsi", "rdi",
      "r8", "r9", "r10", "r11", "r12", "r13", "r14", "r15",
      "xmm0", "xmm1", "xmm2", "xmm3", "xmm4", "xmm5", "xmm6", "xmm7",
      "xmm8", "xmm9", "xmm10", "xmm11", "xmm12", "xmm13", "xmm14", "xmm15">>

Regs == { RegNames[i] : i \in 1 .. Len(RegNames) }

\* the registers a callee may change under the x64 calling convention
Volatile ==
    {"rax", "rcx", "rdx", "r8", "r9", "r10", "r11",
     "xmm0", "xmm1", "xmm2", "xmm3", "xmm4", "xmm5"}

\* what a callee leaves in a register or a stack slot it used as scratch
Scratch == Val(99, 99)

\* (uintptr_t)AllowComment: the callback lives in the plugin, outside host and buffers
AllowCommentAddress == 65536 * (MaxBuffers + 2)

Instr(op, a, b, imm, len) == [op |-> op, a |-> a, b |-> b, imm |-> imm, len |-> len]

\* Mutant: the result is set when the callback returned false
CommentHookCode_SetZ(returnAddr) ==
    << Instr("xor_", "ebp", "ebp", 0, 2),
       Instr("push", "rax", "", 0, 1),
       Instr("push", "rax", "", 0, 1),
       Instr("push", "rcx", "", 0, 1),
       Instr("push", "rdx", "", 0, 1),
       Instr("mov", "rcx", "rdi", 0, 3),
       Instr("mov_imm", "rax", "", AllowCommentAddress, 10),
       Instr("call", "rax", "", 0, 2),
       Instr("test", "al", "al", 0, 2),
       Instr("pop", "rdx", "", 0, 1),
       Instr("pop", "rcx", "", 0, 1),
       Instr("pop", "rax", "", 0, 1),
       Instr("pop", "rax", "", 0, 1),
       Instr("setz", "bpl", "", 0, 4),
       Instr("mov_imm", "eax", "", 1, 5),
       Instr("push", "rax", "", 0, 1),
       Instr("mov_imm", "rax", "", returnAddr, 10),
       Instr("xchg", "rax", "[rsp]", 0, 4),
       Instr("ret", "", "", 0, 1) >>

\* the instructions CommentHookCode emits, in order
CommentHookCode(returnAddr) ==
    << Instr("xor_", "ebp", "ebp", 0, 2),
       Instr("push", "rax", "", 0, 1),
       Instr("push", "rax", "", 0, 1),
       Instr("push", "rcx", "", 0, 1),
       Instr("push", "rdx", "", 0, 1),
       Instr("mov", "rcx", "rdi", 0, 3),
       Instr("mov_imm", "rax", "", AllowCommentAddress, 10),
       Instr("call", "rax", "", 0, 2),
       Instr("test", "al", "al", 0, 2),
       Instr("pop", "rdx", "", 0, 1),
       Instr("pop", "rcx", "", 0, 1),
       Instr("pop", "rax", "", 0, 1),
       Instr("pop", "rax", "", 0, 1),
       Instr("setnz", "bpl", "", 0, 4),
       Instr("mov_imm", "eax", "", 1, 5),
       Instr("push", "rax", "", 0, 1),
       Instr("mov_imm", "rax", "", returnAddr, 10),
       Instr("xchg", "rax", "[rsp]", 0, 4),
       Instr("ret", "", "", 0, 1) >>

\* uintptr_t returnAddr = commentAddress + kCommentByteCount
ReturnAddr == commentAddress.value + kCommentByteCount

\* the code in the hook buffer
Code == CommentHookCode(ReturnAddr)

\* the offset in the buffer of instruction i
RECURSIVE CodeOffset(_)
CodeOffset(i) == IF i <= 1 THEN 0 ELSE CodeOffset(i - 1) + Code[i - 1].len

\* the 64-bit register an operand names
Full(r) ==
    CASE r = "ebp" -> "rbp"
      [] r = "bpl" -> "rbp"
      [] r = "eax" -> "rax"
      [] r = "al" -> "rax"
      [] OTHER -> r

\* x with its lowest byte replaced by b
WithLowByte(x, b) == Val(x.hi, x.lo - (x.lo % 256) + b)

\* the trampoline at the target: mov r11, imm64; jmp r11
TrampolineAt(a) ==
    /\ \A k \in 0 .. (kMinJumpSize - 1) : Wrap(a + k) \in Addr
    /\ ByteAt(a) = 73 /\ ByteAt(a + 1) = 187
    /\ ByteAt(a + 10) = 65 /\ ByteAt(a + 11) = 255 /\ ByteAt(a + 12) = 227

\* the imm64 of the trampoline at a (the model's destinations are below 2^31)
TrampolineTarget(a) ==
    ByteAt(a + 2) + 256 * ByteAt(a + 3) + 65536 * ByteAt(a + 4)
        + 16777216 * (ByteAt(a + 5) % 128)

\* the stack slots of the thread, by address
StackSlots == { 8 * k : k \in 0 .. (2 * StackFrames + 3) }

\* the values of the host's registers when it reaches the target
EntryRegs(seed, handle) ==
    [r \in Regs |->
        IF r = "rdi"
        THEN handle
        ELSE LET i == CHOOSE k \in 1 .. Len(RegNames) : RegNames[k] = r
             IN  Val(i, 256 * i + seed)]

\* Character* npc in rdi: null, or an object
Handles == { Val(h, l) : h \in 0 .. MaxHandle, l \in {0, 4096} }

\* the host keeps rsp 16-byte aligned inside a function body
EntryRsps == {16 * StackFrames, 16 * StackFrames + 16}

\* the host reaches the target: the trampoline loads r11 and jumps to the buffer
HookEnter ==
    /\ pc = "host"
    /\ ip = 0
    /\ commentAddress.has
    /\ TrampolineAt(commentAddress.value)
    /\ TrampolineTarget(commentAddress.value) = hookBuffer
    /\ hookBuffer \in allocated \ freed
    /\ \E seed \in 0 .. MaxSeed, handle \in Handles, sp \in EntryRsps :
          LET r0 == EntryRegs(seed, handle) IN
             /\ entry' = [regs |-> r0, rsp |-> sp]
             /\ regs' = [r0 EXCEPT !["r11"] = Val(0, hookBuffer)]
             /\ rsp' = sp
             /\ stack' = [a \in StackSlots |-> Val(seed, a)]
    /\ zf' = FALSE
    /\ ip' = 1
    /\ callbacks' = << >>
    /\ resumeAt' = 0
    /\ UNCHANGED <<mem, pc, scanVars, progVars, hardware, filterVars>>

\* one instruction other than call and ret
HookStep ==
    /\ ip \in 1 .. Len(Code)
    /\ LET i == Code[ip]
           a == Full(i.a)
       IN  /\ i.op \notin {"call", "ret"}
           /\ CASE i.op = "xor_" /\ i.a = i.b ->
                     \* a 32-bit result clears the upper half
                     /\ regs' = [regs EXCEPT ![a] = Val(0, 0)]
                     /\ zf' = TRUE
                     /\ UNCHANGED <<rsp, stack>>
                [] i.op = "push" ->
                     /\ rsp' = rsp - 8
                     /\ stack' = [stack EXCEPT ![rsp - 8] = regs[a]]
                     /\ UNCHANGED <<regs, zf>>
                [] i.op = "pop" ->
                     /\ regs' = [regs EXCEPT ![a] = stack[rsp]]
                     /\ rsp' = rsp + 8
                     /\ UNCHANGED <<stack, zf>>
                [] i.op = "mov" ->
                     /\ regs' = [regs EXCEPT ![a] = regs[Full(i.b)]]
                     /\ UNCHANGED <<rsp, stack, zf>>
                [] i.op = "mov_imm" ->
                     /\ regs' = [regs EXCEPT ![a] = Val(0, i.imm)]
                     /\ UNCHANGED <<rsp, stack, zf>>
                [] i.op = "test" /\ i.a = "al" /\ i.b = "al" ->
                     /\ zf' = (regs[a].lo % 256 = 0)
                     /\ UNCHANGED <<regs, rsp, stack>>
                [] i.op = "setnz" ->
                     /\ regs' = [regs EXCEPT ![a] = WithLowByte(regs[a], IF zf THEN 0 ELSE 1)]
                     /\ UNCHANGED <<rsp, stack, zf>>
                [] i.op = "setz" ->
                     /\ regs' = [regs EXCEPT ![a] = WithLowByte(regs[a], IF zf THEN 1 ELSE 0)]
                     /\ UNCHANGED <<rsp, stack, zf>>
                [] i.op = "xchg" /\ i.b = "[rsp]" ->
                     /\ regs' = [regs EXCEPT ![a] = stack[rsp]]
                     /\ stack' = [stack EXCEPT ![rsp] = regs[a]]
                     /\ UNCHANGED <<rsp, zf>>
    /\ ip' = ip + 1
    /\ UNCHANGED <<mem, pc, scanVars, progVars, hardware, filterVars, entry, callbacks, resumeAt>>

\* bool AllowComment(Character* npc): the values it can leave in rax
Returns == { Val(0, 256 * upper + al) : upper \in 0 .. 1, al \in 0 .. 1 }

\* the sets of volatile registers a callee may have used as scratch
Clobbers == {{}} \cup { {r} : r \in Volatile \ {"rax"} } \cup {Volatile \ {"rax"}}

\* the slots of its 32-byte home space a callee may have written
HomeWrites == {{}} \cup { {k} : k \in 0 .. 3 } \cup {0 .. 3}

\* call rax: the return address is pushed, AllowComment runs and returns
HookCallback ==
    /\ ip \in 1 .. Len(Code)
    /\ Code[ip].op = "call"
    /\ regs[Full(Code[ip].a)] = Val(0, AllowCommentAddress)
    /\ \E returned \in Returns, clobbered \in Clobbers, written \in HomeWrites :
          LET calleeRsp == rsp - 8
              home == { calleeRsp + 8 + 8 * k : k \in written }
          IN  /\ callbacks' = Append(callbacks,
                                     [rcx |-> regs["rcx"], rsp |-> calleeRsp,
                                      al |-> returned.lo % 256])
              /\ regs' = [r \in Regs |->
                            IF r = "rax" THEN returned
                            ELSE IF r \in clobbered THEN Scratch
                            ELSE regs[r]]
              /\ stack' = [a \in StackSlots |->
                            IF a = calleeRsp THEN Val(0, hookBuffer + CodeOffset(ip + 1))
                            ELSE IF a \in home THEN Scratch
                            ELSE stack[a]]
    /\ zf' \in BOOLEAN
    /\ ip' = ip + 1
    /\ UNCHANGED <<mem, pc, scanVars, progVars, hardware, filterVars, rsp, entry, resumeAt>>

\* ret: the host goes on at the address on top of the stack
HookReturn ==
    /\ ip \in 1 .. Len(Code)
    /\ Code[ip].op = "ret"
    /\ resumeAt' = stack[rsp].lo
    /\ rsp' = rsp + 8
    /\ ip' = 0
    /\ UNCHANGED <<mem, pc, scanVars, progVars, hardware, filterVars, regs, stack, zf, entry, callbacks>>

(***************************************************************************)
(* Hook-code harness: the state after a successful install at a target of  *)
(* the scan window, then the host reaching the target.                     *)
(***************************************************************************)
HookTargets == { kScanStartOffset + o : o \in {0, MaxSigOff} }

HookInit ==
    /\ base = 0
    /\ commentAddress \in { Some(a) : a \in HookTargets }
    /\ hookBuffer = 65536
    /\ mem0 = PlantAt(Blank, commentAddress.value, kCommentBytes)
    /\ mem = PlantAt(mem0, commentAddress.value,
                     Payload(hookBuffer) \o [i \in 1 .. (kCommentByteCount - kMinJumpSize) |-> 144])
    /\ allocated = {hookBuffer} /\ freed = {}
    /\ pc = "host"
    /\ ScanIdle
    /\ UnitIdle
    /\ caller = "Load" /\ queried = FALSE /\ loads = 1 /\ ret = "true"
    /\ cpu = [sse2 |-> FALSE, avx2 |-> FALSE]
    /\ result = 0 /\ method_used = "unknown" /\ attempts = << >>
    /\ codeSize = CommentHookCodeSize
    /\ ichRet = "none" /\ writable = {} /\ oldProtect = "RX"
    /\ flushed = {} /\ wlj = NoJump /\ calls = << >>
    /\ hist = << Event("write", commentAddress.value, TRUE),
                 Event("install", commentAddress.value, TRUE) >>

HookNext ==
    \/ HookEnter
    \/ HookStep
    \/ HookCallback
    \/ HookReturn

HookSpec == HookInit /\ [][HookNext]_vars

(***************************************************************************)
(* DetectCPUFeatures harness: the function called on any hardware.         *)
(***************************************************************************)
DetectInit ==
    /\ hardware \in Hardware
    /\ mem = Blank
    /\ base = 0
    /\ pc = "detect"
    /\ ScanIdle
    /\ ProgIdle
    /\ regs = << >> /\ rsp = 0 /\ stack = << >> /\ zf = FALSE /\ ip = 0
    /\ entry = << >> /\ callbacks = << >> /\ resumeAt = 0
    /\ g_config = << >> /\ scene = << >>

\* CPUFeatures DetectCPUFeatures()
CallDetectCPUFeatures ==
    /\ pc = "detect"
    /\ IF DetectCPUFeaturesRaises(hardware)
       THEN /\ pc' = "detect_raised"
            /\ UNCHANGED cpu
       ELSE /\ pc' = "detected"
            /\ cpu' = DetectCPUFeatures(hardware)
    /\ UNCHANGED <<mem, scanVars, unitVars, hostVars, result, method_used, attempts,
                   commentAddress, installVars, hist>>

DetectNext == CallDetectCPUFeatures

DetectSpec == DetectInit /\ [][DetectNext]_vars

(***************************************************************************)
(* Config.cpp and CommentFilter.cpp: the [Distance] section of the loaded  *)
(* configuration, and AllowComment.  Distances are whole game units.       *)
(***************************************************************************)
MaxDistance == 2

FilterModes == {"AngleOnly", "DistanceOnly", "Both", "Either"}

Abs(x) == IF x < 0 THEN 0 - x ELSE x

\* Mutant: fCloseRangeDistance is not clamped to fMaxGreetingDistance
LoadDistanceSection_NoClamp(rawMaxDistance, enableCloseRangeBypass, rawCloseDistance) ==
    LET maxGreetingDistance == Abs(rawMaxDistance)
        closeRangeDistance ==
            IF enableCloseRangeBypass THEN Abs(rawCloseDistance) ELSE rawCloseDistance
    IN  [maxGreetingDistance |-> maxGreetingDistance,
         maxGreetingDistanceSquared |-> maxGreetingDistance * maxGreetingDistance,
         enableCloseRangeBypass |-> enableCloseRangeBypass,
         closeRangeDistance |-> closeRangeDistance,
         closeRangeDistanceSquared |-> closeRangeDistance * closeRangeDistance]

\* LoadConfiguration, lines 147-199: absolute values, squares, and the clamp of
\* fCloseRangeDistance to fMaxGreetingDistance when the bypass is enabled
LoadDistanceSection(rawMaxDistance, enableCloseRangeBypass, rawCloseDistance) ==
    LET maxGreetingDistance == Abs(rawMaxDistance)
        absClose ==
            IF enableCloseRangeBypass THEN Abs(rawCloseDistance) ELSE rawCloseDistance
        closeRangeDistance ==
            IF enableCloseRangeBypass /\ absClose > maxGreetingDistance
            THEN maxGreetingDistance
            ELSE absClose
    IN  [maxGreetingDistance |-> maxGreetingDistance,
         maxGreetingDistanceSquared |-> maxGreetingDistance * maxGreetingDistance,
         enableCloseRangeBypass |-> enableCloseRangeBypass,
         closeRangeDistance |-> closeRangeDistance,
         closeRangeDistanceSquared |-> closeRangeDistance * closeRangeDistance]

IsWithinGreetingDistance(distanceSquared) ==
    distanceSquared <= g_config.maxGreetingDistanceSquared

IsWithinCloseRange(distanceSquared) ==
    distanceSquared <= g_config.closeRangeDistanceSquared

\* bool AllowComment(RE::Character* npc), with the player singleton, the outcome
\* of IsPlayerFacingNPC and the squared distance it computes; 0 is the null pointer
AllowComment(npc, player, facing, distanceSquared) ==
    IF npc = 0 \/ player = 0 \/ npc = player
    THEN TRUE
    ELSE IF g_config.enableCloseRangeBypass /\ IsWithinCloseRange(distanceSquared)
    THEN TRUE
    ELSE CASE g_config.filterMode = "AngleOnly" -> facing
           [] g_config.filterMode = "DistanceOnly" -> IsWithinGreetingDistance(distanceSquared)
           [] g_config.filterMode = "Both" ->
                IF ~IsWithinGreetingDistance(distanceSquared) THEN FALSE
                ELSE IF ~facing THEN FALSE
                ELSE TRUE
           [] g_config.filterMode = "Either" ->
                IF IsWithinGreetingDistance(distanceSquared) THEN TRUE
                ELSE IF facing THEN TRUE
                ELSE FALSE
           [] OTHER -> facing

(***************************************************************************)
(* AllowComment harness: any configuration file, then any scene.           *)
(***************************************************************************)
RawDistances == (0 - MaxDistance) .. MaxDistance

\* npc, the player singleton, IsPlayerFacingNPC and the squared distance
Scenes ==
    [npc : 0 .. 2, player : 0 .. 1, facing : BOOLEAN,
     distanceSquared : 0 .. (MaxDistance * MaxDistance + 1)]

FilterInit ==
    /\ mem = Blank
    /\ base = 0
    /\ pc = "config"
    /\ ScanIdle
    /\ ProgIdle
    /\ UnitIdle

\* LoadConfiguration: sFilterMode and the [Distance] section
CallLoadConfiguration ==
    /\ pc = "config"
    /\ \E mode \in FilterModes, rawMaxDistance \in RawDistances,
          enableCloseRangeBypass \in BOOLEAN, rawCloseDistance \in RawDistances :
          g_config' = [filterMode |-> mode] @@
                      LoadDistanceSection(rawMaxDistance, enableCloseRangeBypass, rawCloseDistance)
    /\ pc' = "filter"
    /\ UNCHANGED <<mem, scanVars, progVars, hardware, regs, rsp, stack, zf, ip, entry,
                   callbacks, resumeAt, scene>>

\* the hook code calls AllowComment
CallAllowComment ==
    /\ pc = "filter"
    /\ \E sc \in Scenes :
          /\ scene' = sc
          /\ ret' = IF AllowComment(sc.npc, sc.player, sc.facing, sc.distanceSquared)
                    THEN "true" ELSE "false"
    /\ pc' = "filtered"
    /\ UNCHANGED <<mem, scanVars, base, caller, queried, loads, gcaVars, commentAddress,
                   installVars, hist, hardware, regs, rsp, stack, zf, ip, entry,
                   callbacks, resumeAt, g_config>>

FilterNext == CallLoadConfiguration \/ CallAllowComment

FilterSpec == FilterInit /\ [][FilterNext]_vars

(***************************************************************************)
(* Reload harness: the SKSEPlugin_Load sequence run once more than the     *)
(* host runs it, on images that hold the signature once or twice.          *)
(***************************************************************************)
ReloadImages(b) ==
    LET s == b + kScanStartOffset IN
    { PlantAt(Blank, s + o, kCommentBytes) : o \in {0, MaxSigOff} }
    \cup { PlantAt(PlantAt(Blank, s, kCommentBytes), s + kCommentByteCount, kCommentBytes) }

ReloadInit ==
    /\ base \in Bases
    /\ mem \in ReloadImages(base)
    /\ pc = "host"
    /\ ScanIdle
    /\ UnitIdle
    /\ ProgIdle

SKSEPlugin_Reload == SKSEPlugin_LoadWithin(MaxLoads + 1)

ReloadNext ==
    \/ SKSEPlugin_Reload
    \/ Load_Located
    \/ Load_Installed
    \/ GCA_Begin
    \/ GCA_TryAVX2
    \/ GCA_TrySSE2
    \/ GCA_Scalar
    \/ ICH_Alloc
    \/ ICH_Generate
    \/ WLJ_Protect
    \/ WLJ_Write
    \/ WLJ_Restore
    \/ WLJ_Flush
    \/ ICH_Return

ReloadSpec == ReloadInit /\ [][ReloadNext]_vars

(***************************************************************************)
(* Properties of the scanners                                              *)
(***************************************************************************)
PatLen == Len(argPattern)

\* the pattern_len bytes at a equal the pattern
FullMatch(a) == \A i \in 0 .. (PatLen - 1) : a + i \in Addr /\ ByteAt(a + i) = argPattern[i + 1]

\* the addresses of [start, end - pattern_len + 1) that hold a full match
MatchesInRange == { a \in argStart .. (argEnd - PatLen) : FullMatch(a) }

\* C1: for the same start, end, pattern and memory, the scalar, SSE2 and AVX2
\* scanners return the same result.
C1_TiersAgree ==
    pc = "scanned" =>
        /\ out["SSE2"].result = out["Scalar"].result
        /\ out["AVX2"].result = out["Scalar"].result

\* C2: every scanner returns 0 or an address a with start <= a < end - pattern_len + 1
\* whose pattern_len bytes equal the pattern.
C2_ResultInRangeAndMatches ==
    \A t \in DOMAIN out :
        \/ out[t].result = 0
        \/ /\ argStart <= out[t].result
           /\ out[t].result < argEnd - PatLen + 1
           /\ FullMatch(out[t].result)

\* C3: no scanner reads an address at or beyond end.
C3_NoReadAtOrBeyondEnd ==
    \A t \in DOMAIN out : \A a \in out[t].reads : a < argEnd

\* C4: no scanner returns an address while a lower address of
\* [start, end - pattern_len + 1) holds a full match.
C4_LowestMatchFirst ==
    \A t \in DOMAIN out :
        out[t].result # 0 =>
            \A a \in MatchesInRange : out[t].result <= a

\* C4 witness: the pattern occurs at two addresses of the range, the scan starts
\* off a 16-byte boundary, and all three scanners returned the lower one.
C4_Witness ==
    /\ pc = "scanned"
    /\ Cardinality(MatchesInRange) >= 2
    /\ argStart % 16 # 0
    /\ argEnd - argStart >= 32
    /\ \A t \in Tiers :
          /\ out[t].result \in MatchesInRange
          /\ \A a \in MatchesInRange : out[t].result <= a

\* C5: when end - start < pattern_len every scanner returns 0 and reads nothing
\* outside [start, end).
C5_ShortRangeNotFound ==
    \A t \in DOMAIN out :
        argEnd - argStart < PatLen =>
            /\ out[t].result = 0
            /\ \A a \in out[t].reads : argStart <= a /\ a < argEnd

(***************************************************************************)
(* Properties of SKSEPlugin_Load, GetCommentAddress and the hook installer *)
(***************************************************************************)
\* the 18 live bytes at a equal kCommentBytes
SignatureAt(a) ==
    \A i \in 1 .. kCommentByteCount : ByteAt(Wrap(a + i - 1)) = kCommentBytes[i]

\* the call of GetCommentAddress has ended, by a return or by an escaping fault
GCA_Ended == pc \in {"query_located", "load_located", "unhandled"}

\* attempt i ended with a fault, or completed without a match
Failed(i) == attempts[i].outcome \in Faults \/ attempts[i].found = 0

AttemptedAfter(i, tier) ==
    \E j \in (i + 1) .. Len(attempts) : attempts[j].tier = tier

\* C6: every write of the trampoline at an address is directly preceded by a call
\* of IsBinaryCompatible on that address that returned true.
C6_VerifiedBeforeWrite ==
    \A i \in 1 .. Len(hist) :
        hist[i].op = "write" =>
            /\ i > 1
            /\ hist[i - 1] = Event("verify", hist[i].addr, TRUE)

\* C7: when WriteLongJmp64 is about to write, the 18 live bytes at the target
\* equal kCommentBytes.
C7_WriteOnlyOverSignature ==
    pc = "wlj_write" => SignatureAt(Source)

\* C7 witness: the trampoline has just been written over the located address.
C7_Witness ==
    /\ pc = "wlj_restore"
    /\ hist[Len(hist)] = Event("write", Source, TRUE)
    /\ hist[Len(hist) - 1] = Event("locate", Source, TRUE)
    /\ ~SignatureAt(Source)

\* C8: when GetCommentAddress has ended, every SIMD tier that faulted or found
\* nothing was followed by the next narrower tier the descriptor allows and by
\* the scalar tier.
C8_DegradesToScalar ==
    GCA_Ended =>
        \A i \in 1 .. Len(attempts) :
            (attempts[i].tier \in {"AVX2", "SSE2"} /\ Failed(i)) =>
                /\ AttemptedAfter(i, "Scalar")
                /\ (attempts[i].tier = "AVX2" /\ cpu.sse2) => AttemptedAfter(i, "SSE2")

C10_NoFaultEscapes == pc # "unhandled"

\* the addresses of the scanned window that hold the whole signature
SignaturesInWindow ==
    { a \in ScanStart .. (ScanEnd - kCommentByteCount) : SignatureAt(a) }

\* the AVX2 tier faulted and every tier attempted after it ran to completion
OnlyAVX2Faulted ==
    /\ Len(attempts) >= 2
    /\ attempts[1].tier = "AVX2"
    /\ attempts[1].outcome \in Faults
    /\ \A i \in 2 .. Len(attempts) : attempts[i].outcome = "completed"

\* C11: when the AVX2 tier faults, the narrower tiers run normally and the window
\* holds the signature, GetCommentAddress returns the lowest address of the
\* signature, cpu.avx2 is false, and method_used is SSE2 or Scalar, the tier that
\* found it.
C11_DegradedTierFindsSignature ==
    (GCA_Ended /\ attempts # << >> /\ attempts[1].tier = "AVX2"
       /\ attempts[1].outcome \in Faults
       /\ (\A i \in 2 .. Len(attempts) : attempts[i].outcome = "completed")
       /\ SignaturesInWindow # {}) =>
        /\ pc # "unhandled"
        /\ commentAddress.has
        /\ commentAddress.value \in SignaturesInWindow
        /\ \A a \in SignaturesInWindow : commentAddress.value <= a
        /\ ~cpu.avx2
        /\ method_used \in {"SSE2", "Scalar"}
        /\ attempts[Len(attempts)].tier = method_used
        /\ attempts[Len(attempts)].found = commentAddress.value

\* C11 witness: AVX2 raised an illegal-instruction fault and SSE2 found the
\* signature.
C11_Witness ==
    /\ pc = "load_located"
    /\ OnlyAVX2Faulted
    /\ attempts[1].outcome = "ILLEGAL_INSTRUCTION"
    /\ method_used = "SSE2"
    /\ commentAddress.has
    /\ commentAddress.value \in SignaturesInWindow

(***************************************************************************)
(* Properties of InstallCommentHook and WriteLongJmp64                     *)
(***************************************************************************)
\* the steps of WriteLongJmp64 so far include op
Did(op) == \E i \in 1 .. Len(calls) : calls[i].op = op

\* address a holds the byte it held when the installer was entered
Untouched(a) == ByteAt(a) = ByteIn(mem0, a)

\* a lies in [from, from + len)
InRange(a, from, len) == Wrap(a - from) < len

\* the bytes at a are the jump to d: 49 BB, d in little-endian order, 41 FF E3
JumpAt(a, d) ==
    \A i \in 1 .. 13 : ByteAt(Wrap(a + i - 1)) = Payload(d)[i]

\* C12: when InstallCommentHook returns true, the trampoline was written at the
\* target; a failed protection change or a length below 13 makes it return false.
C12_SuccessOnlyIfWritten ==
    (pc = "load_installed" /\ ichRet = "true") =>
        /\ Did("write")
        /\ JumpAt(Source, hookBuffer)

\* C13: when the first VirtualProtect fails, WriteLongJmp64 returns at once: every
\* byte of memory is as before, and no write, restore or flush step was taken.
C13_ProtectFailureTouchesNothing ==
    (calls # << >> /\ calls[1].op = "protect" /\ ~calls[1].ok) =>
        /\ pc = "ich_return"
        /\ Len(calls) = 1
        /\ flushed = {}
        /\ hist = << >>
        /\ \A a \in Addr : Untouched(a)

\* C13 witness: WriteLongJmp64 was called over the signature with a sufficient
\* length, the protection change failed, and the function has returned.
C13_Witness ==
    /\ pc = "ich_return"
    /\ wlj.length >= kMinJumpSize
    /\ calls = <<Step("protect", wlj.source, wlj.length, FALSE)>>
    /\ SignatureAt(wlj.source)

\* byte k (0 = least significant) of the 64-bit value d, for d below 2^31
ByteOf(d, k) == IF k <= 3 THEN (d \div (256 ^ k)) % 256 ELSE 0

\* C14: once WriteLongJmp64 has written with destination d and length L >= 13, the
\* target holds 49 BB, the 8 bytes of d least significant first, 41 FF E3, and
\* 0x90 at every offset 13 .. L - 1.
C14_TrampolineBytes ==
    Did("write") =>
        LET s == wlj.source
            d == wlj.destination
        IN  /\ wlj.length >= 13
            /\ ByteAt(Wrap(s)) = 73
            /\ ByteAt(Wrap(s + 1)) = 187
            /\ \A k \in 0 .. 7 : ByteAt(Wrap(s + 2 + k)) = ByteOf(d, k)
            /\ ByteAt(Wrap(s + 10)) = 65
            /\ ByteAt(Wrap(s + 11)) = 255
            /\ ByteAt(Wrap(s + 12)) = 227
            /\ \A i \in 13 .. (wlj.length - 1) : ByteAt(Wrap(s + i)) = 144

\* C14 witness: WriteLongJmp64 has returned after writing a jump, to a destination
\* with several non-zero bytes, over more than 13 bytes.
C14_Witness ==
    /\ pc = "ich_return"
    /\ Did("write")
    /\ wlj.length > 13
    /\ ByteOf(wlj.destination, 0) # 0
    /\ ByteOf(wlj.destination, 1) # 0
    /\ ByteOf(wlj.destination, 2) # 0

\* C15: InstallCommentHook changes memory by at most one write, of exactly
\* kCommentByteCount bytes at the target; every byte outside
\* [target, target + 18) keeps its value, whether the installation succeeds or not.
C15_OnlyTheTargetBytesChange ==
    /\ \A a \in Addr : ~InRange(a, Source, kCommentByteCount) => Untouched(a)
    /\ \/ mem = mem0
       \/ /\ Did("write")
          /\ Len(mem) = Len(mem0) + 1
          /\ SubSeq(mem, 1, Len(mem0)) = mem0
          /\ mem[Len(mem)].at = Source
          /\ Len(mem[Len(mem)].bytes) = kCommentByteCount

\* C15 witness: the hook was installed over the first of two adjacent signatures;
\* the second one, which starts at target + 18, is intact.
C15_Witness ==
    /\ pc = "load_installed"
    /\ ichRet = "true"
    /\ Did("write")
    /\ ~SignatureAt(Source)
    /\ SignatureAt(Source + kCommentByteCount)

\* the steps of WriteLongJmp64 in the order of its source text
StepOrder == <<"protect", "write", "restore", "flush">>

\* C16: WriteLongJmp64 takes its steps in the order make-writable, write, restore,
\* flush; when it returns after a write, its last step was the flush of exactly
\* [source, source + length), so no flush precedes the write.
C16_StepsInOrder ==
    /\ Len(calls) <= Len(StepOrder)
    /\ \A i \in 1 .. Len(calls) : calls[i].op = StepOrder[i]
    /\ (pc = "ich_return" /\ Did("write")) =>
          /\ calls[Len(calls)] = Step("flush", wlj.source, wlj.length, TRUE)
          /\ flushed = {<<wlj.source, wlj.length>>}

\* C16 witness: WriteLongJmp64 has returned after all four steps over a range
\* longer than the jump.
C16_Witness ==
    /\ pc = "ich_return"
    /\ Len(calls) = 4
    /\ calls[2].op = "write"
    /\ calls[4].op = "flush"
    /\ wlj.length > kMinJumpSize

\* the restoring VirtualProtect was called and failed
RestoreFailed == \E i \in 1 .. Len(calls) : calls[i].op = "restore" /\ ~calls[i].ok

\* C17: after a failed restore of the protection the jump stays at the target,
\* the instruction cache is flushed before WriteLongJmp64 returns, and
\* InstallCommentHook returns true.
C17_RestoreFailureIsNotFatal ==
    RestoreFailed =>
        /\ JumpAt(wlj.source, wlj.destination)
        /\ \A i \in 13 .. (wlj.length - 1) : ByteAt(Wrap(wlj.source + i)) = 144
        /\ pc \in {"wlj_flush", "ich_return", "load_installed"}
        /\ pc \in {"ich_return", "load_installed"} => Did("flush")
        /\ pc = "load_installed" => ichRet = "true"

\* C17 witness: InstallCommentHook has returned true after a failed restore.
C17_Witness ==
    /\ pc = "load_installed"
    /\ RestoreFailed
    /\ Did("flush")
    /\ ichRet = "true"
    /\ JumpAt(Source, hookBuffer)

\* C18: when the generated code is larger than the buffer, InstallCommentHook
\* takes no step of WriteLongJmp64, changes no protection and no byte of memory,
\* and returns false.
C18_OversizedCodeRefused ==
    codeSize > kHookBufferSize =>
        /\ calls = << >>
        /\ writable = {}
        /\ mem = mem0
        /\ \A a \in Addr : Untouched(a)
        /\ pc \in {"ich_alloc", "ich_generate", "load_installed"}
        /\ pc = "load_installed" => ichRet = "false"

\* C18 witness: InstallCommentHook, called on the signature, has generated code
\* one byte larger than the buffer and returned false.
C18_Witness ==
    /\ pc = "load_installed"
    /\ codeSize = kHookBufferSize + 1
    /\ hookBuffer \in allocated
    /\ ichRet = "false"
    /\ SignatureAt(Source)

\* C19: no address of memory holds the jump to a buffer that has been released.
C19_JumpTargetNeverFreed ==
    \A a \in Addr : \A b \in freed : ~JumpAt(a, b)

\* C19 witness: the target holds the jump to the allocated hook buffer, and the
\* buffer has not been released.
C19_Witness ==
    /\ pc = "load_installed"
    /\ JumpAt(Source, hookBuffer)
    /\ hookBuffer \in allocated
    /\ hookBuffer \notin freed

\* the offsets at which the byte at address + offset differs from the signature
Mismatches(address) ==
    { i \in 1 .. kCommentByteCount : ByteAt(Wrap(address + i - 1)) # kCommentBytes[i] }

\* C20: IsBinaryCompatible(address) returns true exactly when address is not null
\* and the 18 bytes at address equal kCommentBytes, so one changed byte makes it
\* return false; the call leaves memory as it was.
C20_VerifyIffSignature ==
    pc = "verified" =>
        /\ ret = "true" <=>
              (commentAddress.value # 0 /\ Mismatches(commentAddress.value) = {})
        /\ mem = mem0
        /\ \A a \in Addr : Untouched(a)

\* C20 witness: IsBinaryCompatible returned false for a non-null address at which
\* exactly one byte, the last one, differs from the signature.
C20_Witness ==
    /\ pc = "verified"
    /\ commentAddress.value # 0
    /\ Mismatches(commentAddress.value) = {kCommentByteCount}
    /\ ret = "false"

(***************************************************************************)
(* Properties of SKSEPlugin_Load as a whole                                *)
(***************************************************************************)
\* SKSEPlugin_Load has returned to the host
LoadReturned == pc = "host" /\ caller = "Load"

\* the last thing SKSEPlugin_Load did was a failed locate or a failed install
LoadDeclined ==
    /\ hist # << >>
    /\ hist[Len(hist)].op \in {"locate", "install"}
    /\ ~hist[Len(hist)].ok

\* C21: when GetCommentAddress returns no address or InstallCommentHook returns
\* false, SKSEPlugin_Load returns true with every byte of memory as it was on
\* entry; SKSEPlugin_Load returns false only when LoadConfiguration fails.
C21_LoadDeclinesQuietly ==
    LoadReturned =>
        /\ ret \in {"true", "false"}
        /\ ret = "false" => ~LoadConfiguration
        /\ LoadDeclined =>
              /\ ret = "true"
              /\ mem = mem0
              /\ \A a \in Addr : Untouched(a)

\* C21 witness: the signature was located, InstallCommentHook returned false, and
\* SKSEPlugin_Load has returned true with the signature still in place.
C21_Witness ==
    /\ LoadReturned
    /\ hist[Len(hist)].op = "install"
    /\ ~hist[Len(hist)].ok
    /\ SignatureAt(hist[Len(hist)].addr)
    /\ ret = "true"

(***************************************************************************)
(* Properties of the generated hook code                                   *)
(***************************************************************************)
\* the hook code has returned to the host
Resumed == ip = 0 /\ resumeAt # 0

\* C22: each time the host reaches the patched target, the hook code calls
\* AllowComment exactly once with rcx holding what rdi held on entry, and then
\* resumes the host at target + 18 with ebp = 1 when the callback returned true,
\* ebp = 0 when it returned false, and eax = 1.
C22_CallsBackOnceAndResumes ==
    /\ Len(callbacks) <= 1
    /\ Resumed =>
          /\ Len(callbacks) = 1
          /\ callbacks[1].rcx = entry.regs["rdi"]
          /\ resumeAt = commentAddress.value + 18
          /\ regs["rbp"].lo = (IF callbacks[1].al # 0 THEN 1 ELSE 0)
          /\ regs["rax"].lo = 1

\* C22 witness: the hook code has resumed the host after a callback that was
\* given a non-null handle and returned true, with ebp = 1.
C22_Witness ==
    /\ Resumed
    /\ callbacks[1].rcx # Val(0, 0)
    /\ callbacks[1].al = 1
    /\ regs["rbp"].lo = 1

\* C23: the stack is 16-byte aligned at the call of AllowComment, and when the
\* hook code resumes the host, rsp and every register other than rbp, rax and
\* r11 hold the values they had on entry, whatever volatile registers and home
\* space slots the callback has written.
C23_RegistersAndStackPreserved ==
    /\ \A i \in 1 .. Len(callbacks) : callbacks[i].rsp % 16 = 8
    /\ Resumed =>
          /\ rsp = entry.rsp
          /\ \A r \in Regs \ {"rbp", "rax", "r11"} : regs[r] = entry.regs[r]

(***************************************************************************)
(* Properties of DetectCPUFeatures                                         *)
(***************************************************************************)
\* C24: DetectCPUFeatures always returns; avx2 is true exactly when the AVX bit
\* and the OSXSAVE bit of CPUID leaf 1 are set, bits 1 and 2 of XCR0 are both
\* set, CPUID leaf 7 exists and its AVX2 bit is set; sse2 is bit 26 of EDX of
\* leaf 1, whatever the other inputs are.
C24_DetectsByCpuAndOs ==
    /\ pc # "detect_raised"
    /\ pc = "detected" =>
          /\ cpu.avx2 = (/\ hardware.ecx28
                         /\ hardware.ecx27
                         /\ hardware.xcr0 \in {6, 7}
                         /\ hardware.maxLeaf >= 7
                         /\ hardware.ebx5)
          /\ cpu.sse2 = hardware.edx26

\* C24 witness: DetectCPUFeatures has returned avx2 = false on a CPU with AVX,
\* OSXSAVE, leaf 7 and the AVX2 bit, whose OS enabled XMM but not YMM state,
\* and sse2 = true.
C24_Witness ==
    /\ pc = "detected"
    /\ hardware.ecx28 /\ hardware.ecx27 /\ hardware.maxLeaf >= 7 /\ hardware.ebx5
    /\ hardware.xcr0 = 3
    /\ ~cpu.avx2
    /\ cpu.sse2

(***************************************************************************)
(* Properties of AllowComment                                              *)
(***************************************************************************)
\* the player is facing the NPC
Facing == scene.facing

\* the NPC is within the distance threshold
WithinDistance == scene.distanceSquared <= g_config.maxGreetingDistance * g_config.maxGreetingDistance

\* the close-range bypass is enabled and the NPC is within close range
Bypassed ==
    /\ g_config.enableCloseRangeBypass
    /\ scene.distanceSquared <= g_config.closeRangeDistance * g_config.closeRangeDistance

\* C25: AllowComment allows a null NPC, a missing player and the player itself;
\* otherwise, with the angle check passing when the player faces the NPC or the
\* close-range bypass applies, AngleOnly allows iff the angle check passes,
\* DistanceOnly iff the NPC is within the distance threshold, Both iff both
\* checks pass, Either iff at least one passes.
C25_ChecksCombinedPerMode ==
    pc = "filtered" =>
        LET allowed == (ret = "true")
            angleOk == Facing \/ Bypassed
        IN  IF scene.npc = 0 \/ scene.player = 0 \/ scene.npc = scene.player
            THEN allowed
            ELSE /\ g_config.filterMode = "AngleOnly" => (allowed <=> angleOk)
                 /\ g_config.filterMode = "DistanceOnly" => (allowed <=> WithinDistance)
                 /\ g_config.filterMode = "Both" => (allowed <=> (angleOk /\ WithinDistance))
                 /\ g_config.filterMode = "Either" => (allowed <=> (angleOk \/ WithinDistance))

\* C25 witness: in mode Both, with the bypass enabled, AllowComment has allowed
\* an NPC in close range that the player does not face.
C25_Witness ==
    /\ pc = "filtered"
    /\ scene.npc = 2 /\ scene.player = 1
    /\ g_config.filterMode = "Both"
    /\ Bypassed
    /\ ~Facing
    /\ ret = "true"

(***************************************************************************)
(* Properties of repeated loads                                            *)
(***************************************************************************)
\* the ranges [a, a + 18) and [b, b + 18) share a byte
Overlap(a, b) == a - b < kCommentByteCount /\ b - a < kCommentByteCount

\* C26: after InstallCommentHook has returned true for address a, the bytes at
\* a differ from the signature, IsBinaryCompatible(a) is false and no later
\* GetCommentAddress returns a; and no two writes of the trampoline overlap.
C26_AtMostOneInstallation ==
    /\ \A i \in 1 .. Len(hist) :
          (hist[i].op = "install" /\ hist[i].ok) =>
              /\ ~SignatureAt(hist[i].addr)
              /\ ~IsBinaryCompatible(hist[i].addr)
              /\ \A j \in (i + 1) .. Len(hist) :
                    (hist[j].op = "locate" /\ hist[j].ok) => hist[j].addr # hist[i].addr
    /\ \A i, j \in 1 .. Len(hist) :
          (i < j /\ hist[i].op = "write" /\ hist[j].op = "write") =>
              ~Overlap(hist[i].addr, hist[j].addr)

====
